---- MODULE Spec2Model ----
(***************************************************************************)
(* Pokemon-Manager-API: the HTTP controller (AppController) and the record *)
(* service (PokemonService) over one relational table.                     *)
(*                                                                         *)
(* Strings are sequences of one-character strings, so that the JavaScript  *)
(* conversions Number(..), String(..) and truthiness are computed, not     *)
(* assumed.  A JavaScript value is a record [t, m, d, s, e]:               *)
(*   t  the type tag: "undefined", "null", "number", "NaN", "string",      *)
(*      "array"                                                            *)
(*   m and d  the finite number m / 10^d (d = 0: an integer),              *)
(*   s  the string, e the elements (strings) of an array.                  *)
(*                                                                         *)
(* Requests are those that passed the basic-auth guard.  The table is kept *)
(* in the order an unordered scan returns its rows: a create appends, an   *)
(* update rewrites the row in place.                                       *)
(***************************************************************************)
EXTENDS Integers, Sequences, FiniteSets, Bags, TLC

VARIABLES
    rows,      \* the "Pokemon" table, in heap order: a sequence of records
    nextId,    \* the SERIAL sequence of column "id": the next id it hands out
    pending,   \* the bag of PUT/DELETE handlers suspended between their two storage calls
    last,      \* the HTTP exchange just completed (request, response, storage calls),
               \* until its response is sent
    deleted    \* history: the bag of ids that DELETE responses returned as deleted

vars == <<rows, nextId, pending, last, deleted>>

\* ------------------------------------------------------------ bounds
\* PUT/DELETE handlers suspended at the same time under SpecRace.
NumConn == 2
\* Rows created under Spec (the model refuses a Create beyond it).
MaxRows == 2
\* PUT/DELETE handlers suspended at the same time under Spec.
MaxSuspended == 1
\* Rows created under SpecRace.
MaxRaceRows == 2
\* Rows the table may hold under SpecQuery.
MaxQueryRows == 3
\* Rows the table may hold under SpecPage: one more than the largest page size.
MaxPageRows == 51

\* ------------------------------------------------------------ strings
Digits == <<"0", "1", "2", "3", "4", "5", "6", "7", "8", "9">>

IsDigit(c) == \E i \in 1..10 : Digits[i] = c

DigitVal(c) == (CHOOSE i \in 1..10 : Digits[i] = c) - 1

\* The collation of the characters used in names (code point order).
Alphabet == <<" ", "+", ",", "-", ".", "0", "1", "2", "3", "4", "5", "6", "7",
              "8", "9", "N", "a", "b", "c", "d", "e", "f", "g", "h", "i", "l",
              "m", "n", "r", "s", "t", "u", "w", "x">>

Ord(c) == IF \E i \in 1..Len(Alphabet) : Alphabet[i] = c
          THEN CHOOSE i \in 1..Len(Alphabet) : Alphabet[i] = c
          ELSE 0

RECURSIVE StrLess(_, _)
StrLess(a, b) ==
    IF b = <<>> THEN FALSE
    ELSE IF a = <<>> THEN TRUE
    ELSE IF Head(a) = Head(b) THEN StrLess(Tail(a), Tail(b))
    ELSE Ord(Head(a)) < Ord(Head(b))

\* b occurs in a as a contiguous substring (SQL LIKE '%b%').
Contains(a, b) ==
    \E i \in 1..(Len(a) - Len(b) + 1) : SubSeq(a, i, i + Len(b) - 1) = b

RECURSIVE TrimLeft(_)
TrimLeft(s) == IF s # <<>> /\ Head(s) = " " THEN TrimLeft(Tail(s)) ELSE s

RECURSIVE TrimRight(_)
TrimRight(s) ==
    IF s # <<>> /\ s[Len(s)] = " " THEN TrimRight(SubSeq(s, 1, Len(s) - 1)) ELSE s

Trim(s) == TrimRight(TrimLeft(s))

RECURSIVE DigitsToInt(_)
DigitsToInt(s) ==
    IF s = <<>> THEN 0
    ELSE 10 * DigitsToInt(SubSeq(s, 1, Len(s) - 1)) + DigitVal(s[Len(s)])

RECURSIVE NatToStr(_)
NatToStr(n) ==
    IF n < 10 THEN <<Digits[n + 1]>>
    ELSE NatToStr(n \div 10) \o <<Digits[(n % 10) + 1]>>

RECURSIVE Pow10(_)
Pow10(d) == IF d = 0 THEN 1 ELSE 10 * Pow10(d - 1)

RECURSIVE ZeroPad(_, _)
ZeroPad(s, n) == IF Len(s) >= n THEN s ELSE ZeroPad(<<"0">> \o s, n)

\* ------------------------------------------------------------ JavaScript values
Blank == [t |-> "undefined", m |-> 0, d |-> 0, s |-> <<>>, e |-> <<>>]

Undefined == Blank
Null == [Blank EXCEPT !.t = "null"]
NaN == [Blank EXCEPT !.t = "NaN"]
Str(x) == [Blank EXCEPT !.t = "string", !.s = x]
Arr(x) == [Blank EXCEPT !.t = "array", !.e = x]

\* The finite number m / 10^d, normalised so that an integer has d = 0.
RECURSIVE Num(_, _)
Num(m, d) ==
    IF d > 0 /\ m % 10 = 0 THEN Num(m \div 10, d - 1)
    ELSE [Blank EXCEPT !.t = "number", !.m = m, !.d = d]

AllDigits(s) == \A i \in 1..Len(s) : IsDigit(s[i])

\* The value of the digits ip "." fp with a sign, NaN when they are no digits.
Decimal(sign, ip, fp) ==
    IF AllDigits(ip) /\ AllDigits(fp) /\ Len(ip) + Len(fp) > 0
    THEN Num(sign * DigitsToInt(ip \o fp), Len(fp))
    ELSE NaN

\* The place of a dot in body, or past its end.
DotAt(body) ==
    IF \E i \in 1..Len(body) : body[i] = "."
    THEN CHOOSE i \in 1..Len(body) : body[i] = "."
    ELSE Len(body) + 1

SplitAt(sign, body, dot) ==
    Decimal(sign, SubSeq(body, 1, dot - 1), SubSeq(body, dot + 1, Len(body)))

\* A non-empty trimmed string: an optional sign and a decimal literal.
ParseSigned(t) ==
    IF Head(t) = "-" THEN SplitAt(0 - 1, Tail(t), DotAt(Tail(t)))
    ELSE IF Head(t) = "+" THEN SplitAt(1, Tail(t), DotAt(Tail(t)))
    ELSE SplitAt(1, t, DotAt(t))

ParseTrimmed(t) == IF t = <<>> THEN Num(0, 0) ELSE ParseSigned(t)

\* StringToNumber (ECMAScript 7.1.4.1.1) on strings of digits, signs, dots,
\* blanks and letters that spell no exponent, radix prefix or "Infinity":
\* blank is 0, an optionally signed decimal literal is its value, else NaN.
StringToNumber(str) == ParseTrimmed(Trim(str))

\* Number::toString for a finite number m / 10^d.
NumberToString(v) ==
    LET mag == IF v.m < 0 THEN 0 - v.m ELSE v.m
        sign == IF v.m < 0 THEN <<"-">> ELSE <<>>
        p == Pow10(v.d)
    IN  IF v.d = 0 THEN sign \o NatToStr(mag)
        ELSE sign \o NatToStr(mag \div p) \o <<".">> \o ZeroPad(NatToStr(mag % p), v.d)

RECURSIVE Join(_)
Join(e) ==
    IF e = <<>> THEN <<>>
    ELSE IF Len(e) = 1 THEN e[1]
    ELSE e[1] \o <<",">> \o Join(Tail(e))

\* String(v): ToString, an array by joining its elements with ",".
String(v) ==
    CASE v.t = "undefined" -> <<"u", "n", "d", "e", "f", "i", "n", "e", "d">>
      [] v.t = "null" -> <<"n", "u", "l", "l">>
      [] v.t = "number" -> NumberToString(v)
      [] v.t = "NaN" -> <<"N", "a", "N">>
      [] v.t = "string" -> v.s
      [] v.t = "array" -> Join(v.e)

\* Number(v): ToNumber, an array through its string.
Number(v) ==
    CASE v.t = "undefined" -> NaN
      [] v.t = "null" -> Num(0, 0)
      [] v.t = "number" -> v
      [] v.t = "NaN" -> v
      [] v.t = "string" -> StringToNumber(v.s)
      [] v.t = "array" -> StringToNumber(Join(v.e))

\* ToBoolean: !v is ~Truthy(v).
Truthy(v) ==
    CASE v.t = "undefined" -> FALSE
      [] v.t = "null" -> FALSE
      [] v.t = "number" -> v.m # 0
      [] v.t = "NaN" -> FALSE
      [] v.t = "string" -> v.s # <<>>
      [] v.t = "array" -> TRUE

\* Number.isInteger(v)
IsInteger(v) == v.t = "number" /\ v.d = 0

\* v < 0 for a number v (NaN compares false).
Negative(v) == v.t = "number" /\ v.m < 0

\* ------------------------------------------------------------ storage (Prisma client)
\* A row of table "Pokemon": id SERIAL, name TEXT, height INTEGER, weight INTEGER,
\* image TEXT.
Row(id, data) ==
    [id |-> id, name |-> data.name, height |-> data.height.m,
     weight |-> data.weight.m, image |-> data.image]

\* prisma.pokemon.findUnique({where: {id}}): the row as a sequence of length one,
\* or the empty sequence for null.
findUnique(table, id) == SelectSeq(table, LAMBDA r : r.id = id)

\* prisma.pokemon.create({data}): the table with the new row appended.
createPokemon(table, id, data) == Append(table, Row(id, data))

\* prisma.pokemon.update({data, where}): every column of the row replaced, the
\* id kept, the updated row returned; rejected when no row has the id.
updatePokemon(table, id, data) ==
    [rejects |-> findUnique(table, id) = <<>>,
     table |-> [i \in 1..Len(table) |->
                   IF table[i].id = id THEN Row(id, data) ELSE table[i]],
     record |-> <<Row(id, data)>>]

\* delete that reports success when no row has the id.
deletePokemonQuiet(table, id) ==
    [rejects |-> FALSE,
     table |-> SelectSeq(table, LAMBDA r : r.id # id),
     record |-> findUnique(table, id)]

\* prisma.pokemon.delete({where}): the table without the row of that id, the
\* deleted row returned; rejected when no row has the id.
deletePokemon(table, id) ==
    [rejects |-> findUnique(table, id) = <<>>,
     table |-> SelectSeq(table, LAMBDA r : r.id # id),
     record |-> findUnique(table, id)]

\* The key a row is ordered by.
KeyLess(field, a, b) ==
    CASE field = "name" -> StrLess(a.name, b.name)
      [] field = "height" -> a.height < b.height
      [] field = "weight" -> a.weight < b.weight

Before(order, a, b) ==
    IF order.dir = "desc" THEN KeyLess(order.field, b, a)
    ELSE KeyLess(order.field, a, b)

\* r put into the sorted sequence s after every row that is not after it.
RECURSIVE Insert(_, _, _)
Insert(order, s, r) ==
    IF s = <<>> THEN <<r>>
    ELSE IF Before(order, r, Head(s)) THEN <<r>> \o s
    ELSE <<Head(s)>> \o Insert(order, Tail(s), r)

RECURSIVE SortBy(_, _)
SortBy(order, s) ==
    IF s = <<>> THEN <<>>
    ELSE Insert(order, SortBy(order, SubSeq(s, 1, Len(s) - 1)), s[Len(s)])

NoOrder == [field |-> "none", dir |-> "none"]

\* One bound of a where clause: undefined is no bound.
Gte(x, bound) == bound.t = "undefined" \/ x >= bound.m
Lte(x, bound) == bound.t = "undefined" \/ x <= bound.m

Matches(where, r) ==
    /\ where.name.t = "undefined" \/ Contains(r.name, where.name.s)
    /\ Gte(r.height, where.height.gte) /\ Lte(r.height, where.height.lte)
    /\ Gte(r.weight, where.weight.gte) /\ Lte(r.weight, where.weight.lte)

\* The rows a query selects, in the order it returns them, before skip and take.
Selected(table, where, orderBy) ==
    LET hit == SelectSeq(table, LAMBDA r : Matches(where, r))
    IN  IF orderBy = NoOrder THEN hit ELSE SortBy(orderBy, hit)

\* prisma.pokemon.findMany({where, orderBy, skip, take})
findMany(table, where, orderBy, skip, take) ==
    LET all == Selected(table, where, orderBy)
        to == IF skip + take < Len(all) THEN skip + take ELSE Len(all)
    IN  SubSeq(all, skip + 1, to)

\* ------------------------------------------------------------ PokemonService
\* validateData without the sign checks.
validateDataUnsigned(data) ==
    LET parsedHeight == Number(data.height)
        parsedWeight == Number(data.weight)
    IN  (IF ~Truthy(data.name) THEN <<"Invalid name">> ELSE <<>>)
        \o (IF ~IsInteger(parsedHeight) THEN <<"Invalid height">> ELSE <<>>)
        \o (IF ~IsInteger(parsedWeight) THEN <<"Invalid weight">> ELSE <<>>)
        \o (IF ~Truthy(data.image) THEN <<"Invalid image url">> ELSE <<>>)

\* validateData: the error list; the empty list stands for null.
validateData(data) ==
    LET parsedHeight == Number(data.height)
        parsedWeight == Number(data.weight)
    IN  (IF ~Truthy(data.name) THEN <<"Invalid name">> ELSE <<>>)
        \o (IF ~IsInteger(parsedHeight) \/ Negative(parsedHeight)
            THEN <<"Invalid height">> ELSE <<>>)
        \o (IF ~IsInteger(parsedWeight) \/ Negative(parsedWeight)
            THEN <<"Invalid weight">> ELSE <<>>)
        \o (IF ~Truthy(data.image) THEN <<"Invalid image url">> ELSE <<>>)

\* resolveData with height and weight exchanged.
resolveDataSwapped(data) ==
    [name |-> String(data.name), height |-> Number(data.weight),
     weight |-> Number(data.height), image |-> String(data.image)]

resolveData(data) ==
    [name |-> String(data.name), height |-> Number(data.height),
     weight |-> Number(data.weight), image |-> String(data.image)]

\* validateId, up to its await: the id may be looked up at all.
validIdFormat(id) == IsInteger(id) /\ ~Negative(id)

NoError == "null"

\* validateId without the lookup.
validateIdFormatOnly(table, id) ==
    IF validIdFormat(id) THEN NoError ELSE "Invalid id"

\* validateId: "Invalid id", or null when a row of that id exists.
validateId(table, id) ==
    IF validIdFormat(id) /\ findUnique(table, id.m) # <<>> THEN NoError
    ELSE "Invalid id"

\* resolveNumber: the integer a string spells, else undefined.
resolveNumber(number) ==
    LET parsedNumber == Number(number)
    IN  IF IsInteger(parsedNumber) THEN parsedNumber ELSE Undefined

\* parseOrderDir
parseOrderDir(orderDir) ==
    IF String(orderDir) = <<"d", "e", "s", "c">> THEN "desc" ELSE "asc"

\* resolveOrderBy
resolveOrderBy(pokemonQuery) ==
    LET orderDirValue == parseOrderDir(pokemonQuery.orderDir)
    IN  CASE pokemonQuery.orderBy = Str(<<"n", "a", "m", "e">>) ->
                [field |-> "name", dir |-> orderDirValue]
          [] pokemonQuery.orderBy = Str(<<"h", "e", "i", "g", "h", "t">>) ->
                [field |-> "name", dir |-> orderDirValue]
          [] pokemonQuery.orderBy = Str(<<"w", "e", "i", "g", "h", "t">>) ->
                [field |-> "name", dir |-> orderDirValue]
          [] OTHER -> NoOrder

\* resolveWhere
resolveWhere(pokemonQuery) ==
    [name |-> pokemonQuery.name,
     height |-> [gte |-> resolveNumber(pokemonQuery.heightGte),
                 lte |-> resolveNumber(pokemonQuery.heightLeq)],
     weight |-> [gte |-> resolveNumber(pokemonQuery.weightGte),
                 lte |-> resolveNumber(pokemonQuery.weightLeq)]]

\* resolvePageSize falling back to the default instead of throwing.
resolvePageSizeLenient(pageSize) ==
    CASE pageSize = Str(<<"2", "0">>) -> [throws |-> FALSE, size |-> 20]
      [] pageSize = Str(<<"5", "0">>) -> [throws |-> FALSE, size |-> 50]
      [] OTHER -> [throws |-> FALSE, size |-> 10]

\* resolvePageSize: the size, or throws BadRequestException.
resolvePageSize(pageSize) ==
    CASE pageSize = Undefined -> [throws |-> FALSE, size |-> 10]
      [] pageSize = Str(<<"1", "0">>) -> [throws |-> FALSE, size |-> 10]
      [] pageSize = Str(<<"2", "0">>) -> [throws |-> FALSE, size |-> 20]
      [] pageSize = Str(<<"5", "0">>) -> [throws |-> FALSE, size |-> 50]
      [] OTHER -> [throws |-> TRUE, size |-> 0]

\* resolvePage counting pages from zero.
resolvePageFromZero(pokemonQuery) ==
    LET validPageSize == resolvePageSize(pokemonQuery.pageSize)
        resolvedPage == resolveNumber(pokemonQuery.page)
        validPage == IF ~Truthy(resolvedPage) \/ resolvedPage.m < 1 THEN 1
                     ELSE resolvedPage.m
    IN  [throws |-> validPageSize.throws,
         skip |-> validPageSize.size * validPage,
         take |-> validPageSize.size]

\* resolvePage
resolvePage(pokemonQuery) ==
    LET validPageSize == resolvePageSize(pokemonQuery.pageSize)
        resolvedPage == resolveNumber(pokemonQuery.page)
        validPage == IF ~Truthy(resolvedPage) \/ resolvedPage.m < 1 THEN 1
                     ELSE resolvedPage.m
    IN  [throws |-> validPageSize.throws,
         skip |-> validPageSize.size * (validPage - 1),
         take |-> validPageSize.size]

\* constructParams
constructParams(pokemonQuery) ==
    LET page == resolvePage(pokemonQuery)
    IN  [throws |-> page.throws,
         where |-> resolveWhere(pokemonQuery),
         orderBy |-> resolveOrderBy(pokemonQuery),
         skip |-> page.skip, take |-> page.take]

\* getPokemons: skip is a multiple of take, so skip / take is exact.
getPokemons(table, params) ==
    [pokemons |-> findMany(table, params.where, params.orderBy,
                           params.skip, params.take),
     page |-> (params.skip \div params.take) + 1]

\* ------------------------------------------------------------ requests
NoBody == [name |-> Undefined, height |-> Undefined, weight |-> Undefined,
           image |-> Undefined]

NoQuery ==
    [orderBy |-> Undefined, orderDir |-> Undefined, name |-> Undefined,
     heightGte |-> Undefined, heightLeq |-> Undefined, weightGte |-> Undefined,
     weightLeq |-> Undefined, page |-> Undefined, pageSize |-> Undefined]

NoParams ==
    [throws |-> FALSE,
     where |-> [name |-> Undefined,
                height |-> [gte |-> Undefined, lte |-> Undefined],
                weight |-> [gte |-> Undefined, lte |-> Undefined]],
     orderBy |-> NoOrder, skip |-> 0, take |-> 0]

\* An HTTP exchange: the request (kind, id, body, query), the response (status,
\* message or errors, record or pokemons and page) and what reached storage
\* (params of findMany, calls in order).
NoExchange ==
    [kind |-> "none", id |-> Undefined, body |-> NoBody, query |-> NoQuery,
     status |-> 0, message |-> "", errors |-> <<>>, record |-> <<>>,
     pokemons |-> <<>>, page |-> 0, params |-> NoParams, calls |-> <<>>]

\* new BadRequestException(validationResult): status 400, the list as message.
BadRequestList(x, errors) == [x EXCEPT !.status = 400, !.errors = errors]

\* new BadRequestException('...'): status 400, the string as message.
BadRequest(x, message, calls) ==
    [x EXCEPT !.status = 400, !.message = message, !.calls = calls]

\* A rejection of the storage call (Prisma P2025, no such row) is not caught:
\* status 500.
ServerError(x, calls) ==
    [x EXCEPT !.status = 500, !.message = "Internal server error", !.calls = calls]

Init ==
    /\ rows = <<>>
    /\ nextId = 1
    /\ pending = EmptyBag
    /\ last = NoExchange
    /\ deleted = EmptyBag

\* ------------------------------------------------------------ AppController
\* POST pokemon.  cap bounds the ids the sequence hands out.
CtlCreatePokemon(pokemonData, cap) ==
    LET x == [NoExchange EXCEPT !.kind = "POST", !.body = pokemonData]
        validationResult == validateData(pokemonData)
        input == resolveData(pokemonData)
    IN  IF validationResult # <<>>
        THEN /\ last = NoExchange
             /\ last' = BadRequestList(x, validationResult)
             /\ UNCHANGED <<rows, nextId, pending, deleted>>
        ELSE /\ last = NoExchange
             /\ nextId <= cap
             /\ rows' = createPokemon(rows, nextId, input)
             /\ nextId' = nextId + 1
             /\ last' = [x EXCEPT !.status = 201,
                                  !.record = <<Row(nextId, input)>>,
                                  !.calls = <<"create">>]
             /\ UNCHANGED <<pending, deleted>>

\* The storage calls validateId makes for an id.
IdCalls(id) == IF validIdFormat(id) THEN <<"findUnique">> ELSE <<>>

\* A handler may be suspended: fewer than conns are.
MaySuspend(conns) == BagCardinality(pending) < conns

Suspend(p) == pending' = pending (+) SetToBag({p})

\* PUT pokemon/:id, up to the end of await validateId(..).
CtlPublishPokemon(id, pokemonData, conns) ==
    LET x == [NoExchange EXCEPT !.kind = "PUT", !.id = id, !.body = pokemonData]
        validationResult == validateData(pokemonData)
        idValidationResult == validateId(rows, Number(id))
    IN  /\ last = NoExchange
        /\ IF validationResult # <<>>
           THEN /\ last' = BadRequestList(x, validationResult)
                /\ UNCHANGED pending
           ELSE IF idValidationResult # NoError
           THEN /\ last' = BadRequest(x, idValidationResult, IdCalls(Number(id)))
                /\ UNCHANGED pending
           ELSE /\ MaySuspend(conns)
                /\ Suspend([kind |-> "PUT", id |-> id, body |-> pokemonData])
                /\ UNCHANGED last
        /\ UNCHANGED <<rows, nextId, deleted>>

\* PUT pokemon/:id, from resolveData to the response.
CtlPublishPokemonResume(p) ==
    LET x == [NoExchange EXCEPT !.kind = "PUT", !.id = p.id, !.body = p.body]
        id == Number(p.id).m
        input == resolveData(p.body)
        done == updatePokemon(rows, id, input)
    IN  /\ last = NoExchange
        /\ p.kind = "PUT"
        /\ pending' = pending (-) SetToBag({p})
        /\ IF ~done.rejects
           THEN /\ rows' = done.table
                /\ last' = [x EXCEPT !.status = 200, !.record = done.record,
                                     !.calls = <<"findUnique", "update">>]
           ELSE /\ rows' = rows
                /\ last' = ServerError(x, <<"findUnique", "update">>)
        /\ UNCHANGED <<nextId, deleted>>

\* DELETE pokemon/:id, up to the end of await validateId(..).
CtlDeletePokemon(id, conns) ==
    LET x == [NoExchange EXCEPT !.kind = "DELETE", !.id = id]
        validationResult == validateId(rows, Number(id))
    IN  /\ last = NoExchange
        /\ IF validationResult # NoError
           THEN /\ last' = BadRequest(x, validationResult, IdCalls(Number(id)))
                /\ UNCHANGED pending
           ELSE /\ MaySuspend(conns)
                /\ Suspend([kind |-> "DELETE", id |-> id, body |-> NoBody])
                /\ UNCHANGED last
        /\ UNCHANGED <<rows, nextId, deleted>>

\* DELETE pokemon/:id, the call of deletePokemon and the response.
CtlDeletePokemonResume(p) ==
    LET x == [NoExchange EXCEPT !.kind = "DELETE", !.id = p.id]
        id == Number(p.id).m
        done == deletePokemon(rows, id)
    IN  /\ last = NoExchange
        /\ p.kind = "DELETE"
        /\ pending' = pending (-) SetToBag({p})
        /\ IF ~done.rejects
           THEN /\ rows' = done.table
                /\ last' = [x EXCEPT !.status = 200, !.record = done.record,
                                     !.calls = <<"findUnique", "delete">>]
                /\ deleted' = deleted (+) SetToBag({id})
           ELSE /\ rows' = rows
                /\ last' = ServerError(x, <<"findUnique", "delete">>)
                /\ deleted' = deleted
        /\ UNCHANGED nextId

\* GET pokemon
CtlGetPokemons(query) ==
    LET x == [NoExchange EXCEPT !.kind = "GET", !.query = query]
        params == constructParams(query)
        result == getPokemons(rows, params)
    IN  /\ last = NoExchange
        /\ IF params.throws
           THEN last' = BadRequest(x, "Invalid page size. Valid sizes: 10, 20, 50", <<>>)
           ELSE last' = [x EXCEPT !.status = 200, !.pokemons = result.pokemons,
                                  !.page = result.page, !.params = params,
                                  !.calls = <<"findMany">>]
        /\ UNCHANGED <<rows, nextId, pending, deleted>>

\* The handler's result or exception goes out as the HTTP response.
Respond ==
    /\ last # NoExchange
    /\ last' = NoExchange
    /\ UNCHANGED <<rows, nextId, pending, deleted>>

\* ------------------------------------------------------------ inputs
S1(a) == Str(<<a>>)
S2(a, b) == Str(<<a, b>>)
S3(a, b, c) == Str(<<a, b, c>>)

Body(name, height, weight, image) ==
    [name |-> name, height |-> height, weight |-> weight, image |-> image]

\* Accepted payloads: plain; numbers given as null and as a string; name an
\* empty array.
BodyA == Body(S1("a"), Num(5, 0), Num(3, 0), S1("u"))
BodyB == Body(S1("b"), Null, S1("7"), S1("v"))
BodyC == Body(Arr(<<>>), Num(2, 0), Num(1, 0), S1("u"))
\* A third plain payload, for sorting and filtering.
BodyD == Body(S1("c"), Num(2, 0), Num(1, 0), S1("w"))

\* Rejected payloads: one to four invalid fields.
BadBodies ==
    { Body(Undefined, Num(5, 0), Num(3, 0), S1("u")),
      Body(Str(<<>>), Num(5, 0), Num(3, 0), Str(<<>>)),
      Body(S1("a"), Num(0 - 1, 0), Num(3, 0), S1("u")),
      Body(S1("a"), Num(15, 1), S3("a", "b", "c"), S1("u")),
      Body(S1("a"), Num(5, 0), Undefined, Undefined),
      Body(S1("a"), S3("1", ".", "5"), S2("-", "2"), S1("u")),
      NoBody }

Bodies == {BodyA, BodyB, BodyC} \cup BadBodies

\* Path ids: every id the sequence hands out up to cap, one it does not, and
\* malformed ones.
PathIds(cap) ==
    {Str(NatToStr(i)) : i \in 1..(cap + 1)}
        \cup {S2("-", "1"), S3("a", "b", "c"), S3("1", ".", "5")}

\* ------------------------------------------------------------ specifications
\* Creates, updates and deletes of every payload.
Next ==
    \/ \E body \in Bodies : CtlCreatePokemon(body, MaxRows)
    \/ \E id \in PathIds(MaxRows), body \in Bodies : CtlPublishPokemon(id, body, MaxSuspended)
    \/ \E p \in BagToSet(pending) : CtlPublishPokemonResume(p)
    \/ \E id \in PathIds(MaxRows) : CtlDeletePokemon(id, MaxSuspended)
    \/ \E p \in BagToSet(pending) : CtlDeletePokemonResume(p)
    \/ Respond

Spec == Init /\ [][Next]_vars

\* Concurrent updates and deletes of accepted payloads.
RaceIds == PathIds(MaxRaceRows) \ {S3("a", "b", "c"), S3("1", ".", "5")}

NextRace ==
    \/ CtlCreatePokemon(BodyA, MaxRaceRows)
    \/ \E id \in RaceIds : CtlPublishPokemon(id, BodyB, NumConn)
    \/ \E p \in BagToSet(pending) : CtlPublishPokemonResume(p)
    \/ \E id \in RaceIds : CtlDeletePokemon(id, NumConn)
    \/ \E p \in BagToSet(pending) : CtlDeletePokemonResume(p)
    \/ Respond

SpecRace == Init /\ [][NextRace]_vars

\* Creates of three payloads with distinct names, heights and weights, and list
\* requests that sort or filter.
QueryOf(orderBy, orderDir, hGte, hLeq, wGte, wLeq, page, pageSize) ==
    [orderBy |-> orderBy, orderDir |-> orderDir, name |-> Undefined,
     heightGte |-> hGte, heightLeq |-> hLeq, weightGte |-> wGte,
     weightLeq |-> wLeq, page |-> page, pageSize |-> pageSize]

NameStr == Str(<<"n", "a", "m", "e">>)
HeightStr == Str(<<"h", "e", "i", "g", "h", "t">>)
WeightStr == Str(<<"w", "e", "i", "g", "h", "t">>)
DescStr == Str(<<"d", "e", "s", "c">>)
AscStr == Str(<<"a", "s", "c">>)

SortQueries ==
    { QueryOf(ob, od, Undefined, Undefined, Undefined, Undefined, Undefined, Undefined) :
        ob \in {Undefined, NameStr, HeightStr, WeightStr, S2("i", "d")},
        od \in {Undefined, AscStr, DescStr, S1("d")} }

BoundValues == {Undefined, Str(<<>>), S1("2"), S3("1", ".", "5")}

BoundQueries ==
    { QueryOf(Undefined, Undefined, hg, hl, wg, wl, Undefined, Undefined) :
        hg \in BoundValues, hl \in BoundValues, wg \in BoundValues, wl \in BoundValues }

NameQueries == { [NoQuery EXCEPT !.name = n] : n \in {Str(<<>>), S1("b")} }

NextQuery ==
    \/ \E body \in {BodyA, BodyB, BodyD} : CtlCreatePokemon(body, MaxQueryRows)
    \/ \E query \in SortQueries \cup BoundQueries \cup NameQueries : CtlGetPokemons(query)
    \/ Respond

SpecQuery == Init /\ [][NextQuery]_vars

\* Creates of one payload, up to more rows than the largest page, and list
\* requests that page.
PageValues ==
    {Undefined, Str(<<>>), S1("0"), S1("1"), S1("2"), S1("3"), S1("6"),
     S2("-", "1"), S3("1", ".", "5"), S3("a", "b", "c")}

PageSizeValues ==
    {Undefined, S2("1", "0"), S2("2", "0"), S2("5", "0"), S1("7"), Str(<<>>),
     S3("1", "0", "0"), S3("1", "0", " ")}

PageQueries ==
    { QueryOf(Undefined, Undefined, hg, Undefined, Undefined, Undefined, pg, ps) :
        hg \in {Undefined, S1("6")}, pg \in PageValues, ps \in PageSizeValues }

NextPage ==
    \/ CtlCreatePokemon(BodyA, MaxPageRows)
    \/ \E query \in PageQueries : CtlGetPokemons(query)
    \/ Respond

SpecPage == Init /\ [][NextPage]_vars

\* ------------------------------------------------------------ properties
\* The record's field constraints, as the data model states them, on a payload.
TextMissing(v) == v.t \in {"undefined", "null"} \/ v = Str(<<>>)

NumberInvalid(v) ==
    v.t = "undefined" \/ ~IsInteger(Number(v)) \/ Negative(Number(v))

\* One message for each invalid field.
ExpectedErrors(body) ==
    (IF TextMissing(body.name) THEN <<"Invalid name">> ELSE <<>>)
    \o (IF NumberInvalid(body.height) THEN <<"Invalid height">> ELSE <<>>)
    \o (IF NumberInvalid(body.weight) THEN <<"Invalid weight">> ELSE <<>>)
    \o (IF TextMissing(body.image) THEN <<"Invalid image url">> ELSE <<>>)

\* A step in which a handler of one of the kinds returns or throws without
\* having been suspended; one in which a handler is suspended as p.
Completes(kinds) ==
    last = NoExchange /\ last' # NoExchange /\ last'.kind \in kinds /\ pending' = pending

Suspends(p) == CopiesIn(p, pending') > CopiesIn(p, pending)

PayloadRejected(body) ==
    /\ last'.status = 400
    /\ last'.errors = ExpectedErrors(body)
    /\ last'.errors # <<>>
    /\ last'.calls = <<>>
    /\ UNCHANGED <<rows, nextId, pending, deleted>>

\* C1: a Create, or an Update of any path id, whose payload has a missing or
\* empty name or image, or a height or weight that is missing or whose number
\* is negative or not an integer, ends in status 400 with one message for each
\* invalid field, makes no storage call and leaves the table as it was; no such
\* Update gets as far as its id check.
C1_InvalidPayloadRejected ==
    [][/\ (Completes({"POST", "PUT"}) /\ ExpectedErrors(last'.body) # <<>>)
          => PayloadRejected(last'.body)
       /\ \A p \in BagToSet(pending') :
             Suspends(p) /\ p.kind = "PUT" => ExpectedErrors(p.body) = <<>>]_vars

\* An Update of a malformed path id with four invalid fields was rejected with
\* the four messages while the table holds a row.
C1_Witness ==
    /\ last.kind = "PUT"
    /\ last.id = S3("a", "b", "c")
    /\ last.status = 400
    /\ Len(last.errors) = 4
    /\ rows # <<>>

\* C2: every row of the table has a non-empty name, a non-negative height, a
\* non-negative weight and a non-empty image.
C2_RecordsValid ==
    \A i \in 1..Len(rows) :
        /\ rows[i].name # <<>>
        /\ rows[i].height >= 0
        /\ rows[i].weight >= 0
        /\ rows[i].image # <<>>

\* A path id that is not a number, not an integer, negative, or the id of no row.
NoSuchRecord(id) ==
    LET n == Number(id)
    IN  ~IsInteger(n) \/ Negative(n) \/ \A i \in 1..Len(rows) : rows[i].id # n.m

IdRejected ==
    /\ last'.status = 400
    /\ last'.message = "Invalid id"
    /\ last'.errors = <<>>
    /\ UNCHANGED <<rows, nextId, pending, deleted>>

\* C3: a Delete, or an Update with an accepted payload, whose path id is
\* malformed or is the id of no row when the handler checks it ends in status
\* 400 "Invalid id" and leaves the table as it was, and never goes on to its
\* storage mutation.
C3_BadIdRejected ==
    [][/\ ( /\ Completes({"PUT", "DELETE"})
            /\ NoSuchRecord(last'.id)
            /\ (last'.kind = "PUT" => validateData(last'.body) = <<>>) )
          => IdRejected
       /\ \A p \in BagToSet(pending') : Suspends(p) => ~NoSuchRecord(p.id)]_vars

\* A Delete of the id of a row deleted before was rejected while the table
\* holds another row.
C3_Witness ==
    /\ last.kind = "DELETE"
    /\ last.status = 400
    /\ last.message = "Invalid id"
    /\ BagIn(Number(last.id).m, deleted)
    /\ rows # <<>>

\* C4: every Update and Delete either changes a row that exists (status 200) or
\* ends in the client error; none passes its id check and then finds the row
\* absent at its storage call.
C4_NoPartialFailure ==
    last.kind \in {"PUT", "DELETE"} => last.status \in {200, 400}

\* The rows other than the one of an id.
Others(table, id) == SelectSeq(table, LAMBDA r : r.id # id)

\* C10: no id is returned as deleted by more than one Delete; a resumed Delete
\* either returns the row of its id, which was in the table, or ends in an
\* error, and leaves every other row as it was.
C10_OneDeleteWins ==
    [][/\ \A i \in BagToSet(deleted') : CopiesIn(i, deleted') <= 1
       /\ \A p \in BagToSet(pending) :
             CtlDeletePokemonResume(p) =>
                 /\ \/ /\ last'.status = 200
                       /\ last'.record # <<>>
                       /\ last'.record = findUnique(rows, Number(p.id).m)
                    \/ last'.status >= 400
                 /\ Others(rows', Number(p.id).m) = Others(rows, Number(p.id).m)]_vars

\* Of two Deletes of one id that both passed the id check, one removed the row
\* and the other ended in an error, another row being in the table.
C10_Witness ==
    /\ last.kind = "DELETE"
    /\ last.status = 500
    /\ BagIn(Number(last.id).m, deleted)
    /\ rows # <<>>

DefaultPageSize == 10

\* The row a Create of BodyA returns.
RecordA(id) ==
    [id |-> id, name |-> <<"a">>, height |-> 5, weight |-> 3, image |-> <<"u">>]

Includes(list, r) == \E j \in 1..Len(list) : list[j] = r

ListedAll == last.kind = "GET" /\ last.query = NoQuery /\ last.status = 200

\* C5 as stated: a List without parameters that follows Creates includes the
\* record created last, from any table.
C5_RoundTripAnyTable ==
    ListedAll /\ nextId > 1 => Includes(last.pokemons, RecordA(nextId - 1))

\* C5: a List without parameters that follows Creates includes the record
\* created last, with its id and the payload's fields, when the table holds
\* at most the default page size of rows.
C5_RoundTripWithinPage ==
    ListedAll /\ nextId > 1 /\ Len(rows) <= DefaultPageSize
        => Includes(last.pokemons, RecordA(nextId - 1))

\* A List without parameters returned the tenth record of a table of ten.
C5_Witness ==
    /\ ListedAll
    /\ Len(rows) = DefaultPageSize
    /\ Includes(last.pokemons, RecordA(DefaultPageSize))

\* A string that spells a decimal integer.
SpellsInteger(v) ==
    /\ v.t = "string"
    /\ LET body == IF v.s # <<>> /\ Head(v.s) \in {"+", "-"} THEN Tail(v.s) ELSE v.s
       IN  body # <<>> /\ \A i \in 1..Len(body) : IsDigit(body[i])

IntegerOf(v) ==
    IF Head(v.s) = "-" THEN 0 - DigitsToInt(Tail(v.s))
    ELSE IF Head(v.s) = "+" THEN DigitsToInt(Tail(v.s))
    ELSE DigitsToInt(v.s)

\* The sort a List request asks for.
ExpectedOrderBy(query) ==
    LET dir == IF query.orderDir = DescStr THEN "desc" ELSE "asc"
    IN  CASE query.orderBy = NameStr -> [field |-> "name", dir |-> dir]
          [] query.orderBy = HeightStr -> [field |-> "height", dir |-> dir]
          [] query.orderBy = WeightStr -> [field |-> "weight", dir |-> dir]
          [] OTHER -> NoOrder

\* C6: a List returns its rows sorted by the field orderBy names, descending
\* for orderDir "desc" and ascending otherwise, and in table order for any
\* other orderBy.
C6_SortedByRequestedField ==
    last.kind = "GET" /\ last.status = 200 =>
        last.pokemons = findMany(rows, last.params.where, ExpectedOrderBy(last.query),
                                 last.params.skip, last.params.take)

\* A value within the bounds two raw parameters state: one that spells an
\* integer bounds it, any other does not.
Within(x, gte, leq) ==
    /\ SpellsInteger(gte) => x >= IntegerOf(gte)
    /\ SpellsInteger(leq) => x <= IntegerOf(leq)

\* C7: a List that only bounds height and weight succeeds and returns the rows
\* within the bounds whose raw values spell integers; every other raw value,
\* absent and empty ones included, bounds nothing.
C7_LenientBounds ==
    last.kind = "GET" /\ last.query.orderBy = Undefined /\ last.query.name = Undefined
        /\ last.query.pageSize = Undefined /\ last.query.page = Undefined =>
        /\ last.status = 200
        /\ last.pokemons =
              SelectSeq(rows, LAMBDA r :
                  /\ Within(r.height, last.query.heightGte, last.query.heightLeq)
                  /\ Within(r.weight, last.query.weightGte, last.query.weightLeq))

\* The page sizes List accepts, and what each means.
Accepted(pageSize) ==
    pageSize \in {Undefined, S2("1", "0"), S2("2", "0"), S2("5", "0")}

SizeOf(pageSize) ==
    IF pageSize = Undefined THEN DefaultPageSize ELSE DigitsToInt(pageSize.s)

\* The page a page parameter means: itself when an integer >= 1, else 1.
PageOf(page) ==
    IF SpellsInteger(page) /\ IntegerOf(page) >= 1 THEN IntegerOf(page) ELSE 1

\* C8: a List with an accepted page size s and page p queries take = s and
\* skip = s * (p - 1), returns the rows at positions skip + 1 .. skip + s of the
\* filtered result, at most s of them, and returns page p.
C8_Pagination ==
    last.kind = "GET" /\ Accepted(last.query.pageSize) =>
        LET s == SizeOf(last.query.pageSize)
            p == PageOf(last.query.page)
            all == Selected(rows, last.params.where, last.params.orderBy)
            to == IF s * p < Len(all) THEN s * p ELSE Len(all)
        IN  /\ last.status = 200
            /\ last.params.take = s
            /\ last.params.skip = s * (p - 1)
            /\ Len(last.pokemons) <= s
            /\ last.pokemons = SubSeq(all, s * (p - 1) + 1, to)
            /\ last.page = p

\* Page 2 of size 10 of a table of fifteen rows returned five rows and page 2.
C8_Witness ==
    /\ last.kind = "GET"
    /\ last.query.pageSize = S2("1", "0")
    /\ last.query.page = S1("2")
    /\ Len(rows) = 15
    /\ Len(last.pokemons) = 5
    /\ last.page = 2

\* C9: a List whose pageSize is present and not "10", "20" or "50" ends in
\* status 400 without a storage call, whatever its other parameters; one whose
\* pageSize is absent or one of the three succeeds.
C9_PageSizeStrict ==
    last.kind = "GET" =>
        IF Accepted(last.query.pageSize) THEN last.status = 200
        ELSE last.status = 400 /\ last.calls = <<>> /\ last.pokemons = <<>>

\* A List of page size "7" with other parameters set was rejected while the
\* table holds rows.
C9_Witness ==
    /\ last.kind = "GET"
    /\ last.query.pageSize = S1("7")
    /\ last.query.page = S1("2")
    /\ last.query.heightGte = S1("6")
    /\ last.status = 400
    /\ rows # <<>>

====
